---- MODULE Spec2Model ----
(***************************************************************************)
(* A model of the N-body engine of celesti_track: the Simulator of         *)
(* simulation.py (add, move_to_com, run, reset, sample), the integrators   *)
(* and the two force routines of integrators.py, and the retry decorator   *)
(* of utils.py and utils/helpers.py.                                       *)
(*                                                                         *)
(* Four specifications share the variables.  Spec is the Simulator with    *)
(* every call one step.  SpecRun is the Simulator with run followed        *)
(* through its loop.  SpecForce calls the two force routines on the same   *)
(* arguments.  SpecRetry is one call of a wrapped function.  Each holds    *)
(* the variables of the others constant.                                   *)
(*                                                                         *)
(* Numbers.  The program computes with Python numbers and float64 arrays.  *)
(* The model computes on the integer grid: every quantity is an integer,   *)
(* a division or a square root rounds towards zero, and one extra value,   *)
(* NaN, stands for the IEEE not-a-number that 0/0 produces.  The clock t,  *)
(* the step dt and the targets are integers, for which Python's own        *)
(* arithmetic (t = 0, t += dt, t < tmax) is exact.  Every body lies on the *)
(* x axis, so that unit vectors and distances are exact on the grid.       *)
(***************************************************************************)
EXTENDS Integers, Sequences, FiniteSets, TLC

\* ------------------------------------------------------------------ bounds
MaxT == 2
MaxLen == 4
MaxRetry == 3

\* -------------------------------------------------------- program constants
\* 4 * pi^2 = 39.47..., on the integer grid
G_AU_Msun_Yr == 39
\* 6.6743e-11, on the integer grid
G_standard == 0

\* IEEE not-a-number, the result of 0.0 / 0.0 in an array division
NaN == 1000000000

\* ------------------------------------------------------------ input domains
Targets == (-1) .. MaxT
DtValues == {1, 2}
UseStandardG == BOOLEAN
IntegratorNames == {"RK4", "Euler", "WHFast", "Leapfrog"}

\* The bodies a caller adds: keyword arguments of Simulator.add.  fm, fx, fv
\* say whether the mass, the coordinates, the velocity components are given
\* as Python floats (TRUE) or as Python ints (FALSE).
Sun == [name |-> "Sun", m |-> 2, x |-> 0, y |-> 0, z |-> 0,
        vx |-> 0, vy |-> 0, vz |-> 0, fm |-> TRUE, fx |-> TRUE, fv |-> TRUE]
Probe == [name |-> "Probe", m |-> 1, x |-> 3, y |-> 0, z |-> 0,
          vx |-> -1, vy |-> 0, vz |-> 0, fm |-> TRUE, fx |-> FALSE, fv |-> TRUE]
Void == [name |-> "Void", m |-> 0, x |-> -2, y |-> 0, z |-> 0,
         vx |-> 1, vy |-> 0, vz |-> 0, fm |-> TRUE, fx |-> TRUE, fv |-> TRUE]
Twin == [name |-> "Twin", m |-> 2, x |-> 0, y |-> 0, z |-> 0,
         vx |-> 0, vy |-> 0, vz |-> 0, fm |-> TRUE, fx |-> TRUE, fv |-> TRUE]
Moon == [name |-> "Moon", m |-> 2, x |-> 1, y |-> 0, z |-> 0,
         vx |-> 0, vy |-> 0, vz |-> 0, fm |-> TRUE, fx |-> TRUE, fv |-> TRUE]
\* The ensemble specifications (SimConfig.celestial_init_states) a caller
\* starts from; the bodies are added in the order of the mapping.
\*   Probe alone     every coordinate an int: the positions array is int64
\*   Probe, Sun      two bodies apart
\*   Sun, Twin       two bodies at the same coordinates
\*   Sun, Void       a body of mass zero
\*   Probe, Moon     two bodies whose centre of mass, 5/3, is not a grid number
Ensembles == {<<Probe, Sun>>, <<Sun, Twin>>, <<Sun, Void>>, <<Probe, Moon>>}

\* ---------------------------------------------------------------- numbers
IsNaN(a) == a = NaN

Abs(a) == IF a < 0 THEN -a ELSE a

\* integer quotient rounded towards zero, b # 0
Quot(a, b) ==
    LET q == Abs(a) \div Abs(b)
    IN  IF (a < 0) # (b < 0) THEN -q ELSE q

\* the integer square root of n >= 0, known to lie in lo .. hi, by bisection
RECURSIVE SqrtFrom(_, _, _)
SqrtFrom(n, lo, hi) ==
    IF lo = hi THEN lo
    ELSE IF ((lo + hi + 1) \div 2) * ((lo + hi + 1) \div 2) <= n
         THEN SqrtFrom(n, (lo + hi + 1) \div 2, hi)
         ELSE SqrtFrom(n, lo, ((lo + hi + 1) \div 2) - 1)

FAdd(a, b) == IF IsNaN(a) \/ IsNaN(b) THEN NaN ELSE a + b
FSub(a, b) == IF IsNaN(a) \/ IsNaN(b) THEN NaN ELSE a - b
FMul(a, b) == IF IsNaN(a) \/ IsNaN(b) THEN NaN ELSE a * b
\* np.sqrt
FSqrt(a) == IF IsNaN(a) THEN NaN ELSE SqrtFrom(a, 0, IF a < 46340 THEN a ELSE 46340)
\* An element of an array division (numpy semantics, nothing is raised): 0/0
\* is NaN.  Every array division of the program that divides by zero divides
\* zero or NaN (r_vec / r_mag with r_mag = 0, and force * r_hat / m with m = 0,
\* where force = G * 0 * m_j / r^2), so no infinity arises.
FDiv(a, b) == IF IsNaN(a) \/ IsNaN(b) \/ b = 0 THEN NaN ELSE Quot(a, b)

\* The element of a one-element set.  { e(x) : x \in {v} } evaluates v once
\* and names its value x: the definitions below use it where the program
\* assigns a computed value to a local variable.
The(S) == CHOOSE r \in S : TRUE

\* ---------------------------------------------------------------- vectors
Vec(a, b, c) == <<a, b, c>>
VAdd(u, v) ==
    The({<<FAdd(a[1], b[1]), FAdd(a[2], b[2]), FAdd(a[3], b[3])>> : a \in {u}, b \in {v}})
VSub(u, v) ==
    The({<<FSub(a[1], b[1]), FSub(a[2], b[2]), FSub(a[3], b[3])>> : a \in {u}, b \in {v}})
VScale(s, u) ==
    The({<<FMul(c, a[1]), FMul(c, a[2]), FMul(c, a[3])>> : c \in {s}, a \in {u}})
VDiv(u, s) ==
    The({<<FDiv(a[1], c), FDiv(a[2], c), FDiv(a[3], c)>> : a \in {u}, c \in {s}})
ZeroVec == <<0, 0, 0>>

\* the array <<f[1], ..., f[n]>>
RECURSIVE Rows(_, _)
Rows(f, n) == IF n = 0 THEN <<>> ELSE Append(Rows(f, n - 1), f[n])

\* N x 3 arrays: sequences of vectors
AAdd(A, B) ==
    The({Rows([i \in 1..Len(a) |-> VAdd(a[i], b[i])], Len(a)) : a \in {A}, b \in {B}})
AScale(s, A) ==
    The({Rows([i \in 1..Len(a) |-> VScale(c, a[i])], Len(a)) : c \in {s}, a \in {A}})
ADiv(A, s) ==
    The({Rows([i \in 1..Len(a) |-> VDiv(a[i], c)], Len(a)) : a \in {A}, c \in {s}})

\* np.array(list): the dtype is float64 when the list is empty or holds a
\* float, int64 when every entry is a Python int
NpArray(rows, anyFloat) ==
    [dtype |-> IF Len(rows) = 0 \/ anyFloat THEN "float64" ELSE "int64",
     rows |-> Rows(rows, Len(rows))]

\* ------------------------------------------------------------ force model
\* One pair (i, j), i # j, of calc_acceleration's loop body.  The scalar
\* division G * m_i * m_j / r_mag**2 is compiled code with Python's error
\* model: a zero divisor raises ZeroDivisionError.  The two array divisions
\* follow numpy and raise nothing.
PairAcceleration(pos_i, pos_j, m_i, m_j, G_) ==
    The({The({The({
        [raised |-> r_mag2 = 0,
         acc |-> VDiv(VScale(FDiv(FMul(FMul(G_, m_i), m_j), r_mag2), r_hat), m_i)]
          : r_hat \in {VDiv(r_vec, r_mag)}, r_mag2 \in {FMul(r_mag, r_mag)}})
          : r_mag \in {FSqrt(FAdd(FAdd(FMul(r_vec[1], r_vec[1]),
                                       FMul(r_vec[2], r_vec[2])),
                                  FMul(r_vec[3], r_vec[3])))}})
          : r_vec \in {VSub(pos_j, pos_i)}})

\* acc[i] after the inner loop has run over j = 1 .. upto
RECURSIVE AccRow(_, _, _, _, _)
AccRow(positions, masses, G_, i, upto) ==
    IF upto = 0 THEN [raised |-> FALSE, acc |-> ZeroVec]
    ELSE IF upto = i THEN AccRow(positions, masses, G_, i, upto - 1)
    ELSE The({[raised |-> before.raised \/ pair.raised,
               acc |-> VAdd(before.acc, pair.acc)]
                : before \in {AccRow(positions, masses, G_, i, upto - 1)},
                  pair \in {PairAcceleration(positions[i], positions[upto],
                                             masses[i], masses[upto], G_)}})

\* calc_acceleration, for len(masses) = the number of rows of positions
calc_acceleration(positions, masses, G_) ==
    The({[raised |-> \E i \in 1..Len(rows) : rows[i].raised,
          acc |-> Rows([i \in 1..Len(rows) |-> rows[i].acc], Len(rows))]
           : rows \in {Rows([i \in 1..Len(masses) |->
                                AccRow(positions, masses, G_, i, Len(masses))],
                            Len(masses))}})

\* One entry (i, j) of numpy_calc_acceleration's N x N x 3 array force_vectors.
\* r_vec is positions[i] - positions[j].  Where r_mag is zero it is replaced by
\* inf, so that r_hat = r_vec / inf and the magnitude G * m_j * m_i / inf**2
\* are zero there; np.fill_diagonal zeroes the magnitude for i = j.  Every
\* division is numpy's: nothing is raised.
NumpyForceVector(pos_i, pos_j, m_i, m_j, G_, diagonal) ==
    The({The({The({
        VScale(IF diagonal THEN 0
               ELSE IF r_mag = 0 THEN FMul(gmm, 0)
               ELSE FDiv(gmm, FMul(r_mag, r_mag)),
               r_hat)
          : r_hat \in {IF r_mag = 0 THEN VScale(0, r_vec) ELSE VDiv(r_vec, r_mag)},
            gmm \in {FMul(FMul(G_, m_j), m_i)}})
          : r_mag \in {FSqrt(FAdd(FAdd(FMul(r_vec[1], r_vec[1]),
                                       FMul(r_vec[2], r_vec[2])),
                                  FMul(r_vec[3], r_vec[3])))}})
          : r_vec \in {VSub(pos_i, pos_j)}})

\* total_forces[i] = np.sum(force_vectors, axis=1)[i], over j = 1 .. upto
RECURSIVE NumpyTotalForce(_, _, _, _, _)
NumpyTotalForce(positions, masses, G_, i, upto) ==
    IF upto = 0 THEN ZeroVec
    ELSE VAdd(NumpyTotalForce(positions, masses, G_, i, upto - 1),
              NumpyForceVector(positions[i], positions[upto],
                               masses[i], masses[upto], G_, upto = i))

\* numpy_calc_acceleration, for N x 3 positions and N masses
numpy_calc_acceleration(positions, masses, G_) ==
    [raised |-> FALSE,
     acc |-> Rows([i \in 1..Len(masses) |->
                      VDiv(NumpyTotalForce(positions, masses, G_, i, Len(masses)),
                           masses[i])],
                  Len(masses))]

\* ------------------------------------------------------------ integrators
\* The assertion both step methods start with
AllFloat64(positions, velocities, masses) ==
    /\ positions.dtype = velocities.dtype
    /\ velocities.dtype = masses.dtype
    /\ masses.dtype = "float64"

\* 0.5 * dt * k and (dt / 6.0) * k on the grid
Half(dt_, A) == ADiv(AScale(dt_, A), 2)
Sixth(dt_, A) == ADiv(AScale(dt_, A), 6)

Raise(kind) == [raised |-> TRUE, error |-> kind, positions |-> <<>>, velocities |-> <<>>]
Return(P, V) == [raised |-> FALSE, error |-> "none",
                 positions |-> [dtype |-> "float64", rows |-> P],
                 velocities |-> [dtype |-> "float64", rows |-> V]]

\* EulerIntegrator.step after its assertion, on the arrays' rows
EulerArrays(G_, dt_, x, v, m) ==
    The({IF a.raised THEN Raise("ZeroDivisionError")
         ELSE The({Return(AAdd(x, AScale(dt_, new_velocities)), new_velocities)
                    : new_velocities \in {AAdd(v, AScale(dt_, a.acc))}})
          : a \in {calc_acceleration(x, m, G_)}})

\* EulerIntegrator.step.  The compiled force routine is typed on a call: for a
\* positions array of one dimension, which np.array builds from an empty
\* ensemble, it does not compile (TypingError).
EulerStep(G_, dt_, positions, velocities, masses) ==
    IF ~AllFloat64(positions, velocities, masses) THEN Raise("AssertionError")
    ELSE IF Len(positions.rows) = 0 THEN Raise("TypingError")
    ELSE EulerArrays(G_, dt_, positions.rows, velocities.rows, masses.rows)

\* RK4Integrator.step after its assertion, on the arrays' rows: the four
\* stages, each with its force evaluation
RK4Arrays(G_, dt_, x, v, m) ==
    The({IF k1.raised THEN Raise("ZeroDivisionError") ELSE
      The({The({IF k2.raised THEN Raise("ZeroDivisionError") ELSE
        The({The({IF k3.raised THEN Raise("ZeroDivisionError") ELSE
          The({The({IF k4.raised THEN Raise("ZeroDivisionError") ELSE
            Return(
              AAdd(x, Sixth(dt_, AAdd(AAdd(k1_pos, AScale(2, k2_pos)),
                                      AAdd(AScale(2, k3_pos), k4_pos)))),
              AAdd(v, Sixth(dt_, AAdd(AAdd(k1.acc, AScale(2, k2.acc)),
                                      AAdd(AScale(2, k3.acc), k4.acc)))))
            : k4 \in {calc_acceleration(pos4, m, G_)}})
            : pos4 \in {AAdd(x, AScale(dt_, k3_pos))},
              k4_pos \in {AAdd(v, AScale(dt_, k3.acc))}})
          : k3 \in {calc_acceleration(pos3, m, G_)}})
          : pos3 \in {AAdd(x, Half(dt_, k2_pos))},
            k3_pos \in {AAdd(v, Half(dt_, k2.acc))}})
        : k2 \in {calc_acceleration(pos2, m, G_)}})
        : pos2 \in {AAdd(x, Half(dt_, k1_pos))},
          k2_pos \in {AAdd(v, Half(dt_, k1.acc))}})
      : k1 \in {calc_acceleration(x, m, G_)}, k1_pos \in {v}})

\* RK4Integrator.step
RK4Step(G_, dt_, positions, velocities, masses) ==
    IF ~AllFloat64(positions, velocities, masses) THEN Raise("AssertionError")
    ELSE IF Len(positions.rows) = 0 THEN Raise("TypingError")
    ELSE RK4Arrays(G_, dt_, positions.rows, velocities.rows, masses.rows)

\* WHFastIntegrator.step: the body is `pass`, the call returns None
WHFastStep(G_, dt_, positions, velocities, masses) ==
    [raised |-> FALSE, error |-> "none", value |-> "None"]

\* self.integrator.step of a Simulator: its integrator is an RK4Integrator or
\* an EulerIntegrator (see SimCreateIntegrator)
IntegratorStep(integ, G_, dt_, positions, velocities, masses) ==
    IF integ = "RK4" THEN RK4Step(G_, dt_, positions, velocities, masses)
    ELSE EulerStep(G_, dt_, positions, velocities, masses)

\* Simulator._create_integrator
SimCreateIntegrator(name) ==
    IF name = "RK4" THEN [raised |-> FALSE, value |-> "RK4Integrator"]
    ELSE IF name = "Euler" THEN [raised |-> FALSE, value |-> "EulerIntegrator"]
    ELSE [raised |-> TRUE, value |-> "ValueError"]

\* create_integrator of integrators.py: the 'WHFast' branch is `pass`, the
\* function falls off its end and returns None
create_integrator(name) ==
    IF name = "RK4" THEN [raised |-> FALSE, value |-> "RK4Integrator"]
    ELSE IF name = "Euler" THEN [raised |-> FALSE, value |-> "EulerIntegrator"]
    ELSE IF name = "WHFast" THEN [raised |-> FALSE, value |-> "None"]
    ELSE [raised |-> TRUE, value |-> "ValueError"]

\* -------------------------------------------------------------- simulator
VARIABLES
    t,           \* Simulator.t, the clock
    dt,          \* Simulator.dt
    G,           \* Simulator.G
    integrator,  \* the class of Simulator.integrator, by its selector name
    particles,   \* Simulator.particles
    celestial_init_states,  \* the ensemble specification the caller adds from
    states,      \* Simulator.states: {'positions': [...], 'velocities': [...]}
    result,      \* what the last call gave its caller: a value or an exception
    calls,       \* history: the run calls made since the trajectory was last fresh
    replay       \* history: the trajectory the last reset discarded

simVars == <<t, dt, G, integrator, particles, celestial_init_states, states, result,
             calls, replay>>

\* a call of run in progress
VARIABLES
    pc,          \* where the caller is: "idle" between calls, or inside run at the
                 \* test of `while self.t < tmax` ("while") or in the loop body ("step")
    target       \* tmax, the argument of the call of run in progress

loopVars == <<pc, target>>

\* the two force routines of integrators.py, called on the same arguments
VARIABLES
    force_args,  \* (positions, masses, G)
    acc_numpy,   \* what numpy_calc_acceleration gave, once it was called
    acc_numba    \* what calc_acceleration gave, once it was called

forceVars == <<force_args, acc_numpy, acc_numba>>

\* one call of a function wrapped by retry_on_exception(n_retry, delay_s)
VARIABLES
    n_retry,     \* the decorator's arguments
    delay_s,
    attempts,    \* the wrapper's local counter
    func_calls,  \* history: the outcome of every invocation of the function
    sleeps,      \* history: the argument of every call of time.sleep
    wrapper      \* where the wrapper is, and what it gave its caller

retryVars == <<n_retry, delay_s, attempts, func_calls, sleeps, wrapper>>

vars == <<simVars, loopVars, forceVars, retryVars>>

\* no call of run is in progress
LoopIdle == pc = "idle" /\ target = 0

EmptyStates == [positions |-> <<>>, velocities |-> <<>>]

NoCalls(afterReset) == [clean |-> TRUE, afterReset |-> afterReset, runs |-> <<>>]
NoReplay == [valid |-> FALSE, tmax |-> 0, status |-> "none", states |-> EmptyStates]

\* Particle.__init__: the fields are stored as given, none is validated
Particle(body) == body

\* the arrays run builds from the ensemble
ParticleMasses(ps) ==
    NpArray([i \in 1..Len(ps) |-> ps[i].m], \E i \in 1..Len(ps) : ps[i].fm)
InitialPositions(ps) ==
    NpArray([i \in 1..Len(ps) |-> Vec(ps[i].x, ps[i].y, ps[i].z)],
            \E i \in 1..Len(ps) : ps[i].fx)
InitialVelocities(ps) ==
    NpArray([i \in 1..Len(ps) |-> Vec(ps[i].vx, ps[i].vy, ps[i].vz)],
            \E i \in 1..Len(ps) : ps[i].fv)

\* `if self.t == 0:` of run: when the initial snapshot is recorded
RecordsInitial(t_, states_) == t_ = 0

\* `while self.t < tmax`
LoopContinuesInclusive(tt, tmax) == tt <= tmax
LoopContinues(tt, tmax) == tt < tmax

\* `self.t += self.dt`
AdvanceTwice(tt, dt_) == tt + dt_ + dt_
Advance(tt, dt_) == tt + dt_

\* the loop `while self.t < tmax` of run, from clock tt with the lists P and V.
\* status "undefined": the compiled force routine is entered with more masses
\* than the last snapshot has rows; it indexes the arrays out of bounds, which
\* the compiled code does not check.
RECURSIVE RunLoop(_, _, _, _, _)
RunLoop(tt, P, V, tmax, particle_masses) ==
    LET out(status, error) ==
            [t |-> tt, states |-> [positions |-> P, velocities |-> V],
             status |-> status, error |-> error]
        last_positions == P[Len(P)]
        last_velocities == V[Len(V)]
    IN  IF ~LoopContinues(tt, tmax) THEN out("ok", "none")
        ELSE IF Len(P) = 0 THEN out("error", "IndexError")
        ELSE IF /\ AllFloat64(last_positions, last_velocities, particle_masses)
                /\ Len(last_positions.rows) > 0
                /\ Len(particle_masses.rows) # Len(last_positions.rows)
             THEN out("undefined", "none")
        ELSE The({IF step.raised THEN out("error", step.error)
                  ELSE RunLoop(Advance(tt, dt), Append(P, step.positions),
                               Append(V, step.velocities), tmax, particle_masses)
                   : step \in {IntegratorStep(integrator, G, dt, last_positions,
                                              last_velocities, particle_masses)}})

\* Simulator.run up to its return or its exception
RunCall(t_, states_, ps, tmax) ==
    The({RunLoop(t_, recorded.positions, recorded.velocities, tmax, particle_masses)
          : particle_masses \in {ParticleMasses(ps)},
            recorded \in {IF RecordsInitial(t_, states_)
                          THEN [positions |->
                                    Append(states_.positions, InitialPositions(ps)),
                                velocities |->
                                    Append(states_.velocities, InitialVelocities(ps))]
                          ELSE states_}})

\* ceil(a / b) for b > 0: the number of steps of dt = b that cover a >= 0
Ceil(a, b) == IF a <= 0 THEN -((-a) \div b) ELSE (a + b - 1) \div b

\* What a step that read out of bounds may leave behind when it returns: arrays
\* of the last snapshot's shape holding whatever the memory held.
Garbage(snapshot) ==
    [dtype |-> "float64", rows |-> [i \in 1..Len(snapshot.rows) |-> Vec(NaN, NaN, NaN)]]

RECURSIVE GarbageLoop(_, _, _, _)
GarbageLoop(tt, P, V, tmax) ==
    IF ~LoopContinues(tt, tmax)
    THEN [t |-> tt, states |-> [positions |-> P, velocities |-> V]]
    ELSE GarbageLoop(Advance(tt, dt), Append(P, Garbage(P[Len(P)])),
                     Append(V, Garbage(V[Len(V)])), tmax)

Alive == result.status # "crash"

NoteRun(tmax, status) ==
    IF calls.clean /\ Len(calls.runs) < 2
    THEN [calls EXCEPT !.runs = Append(@, [tmax |-> tmax, status |-> status])]
    ELSE [calls EXCEPT !.clean = FALSE, !.runs = <<>>]

\* any other call: it belongs to the configuration while no run was made
NoteOther ==
    IF calls.runs = <<>> THEN calls ELSE [calls EXCEPT !.clean = FALSE, !.runs = <<>>]

Run(tmax) ==
    /\ Alive
    /\ Len(states.positions) + (IF RecordsInitial(t, states) THEN 1 ELSE 0)
          + (IF t < tmax THEN Ceil(tmax - t, dt) ELSE 0) <= MaxLen
    /\ \E r \in {RunCall(t, states, particles, tmax)} :
        \E g \in {IF r.status = "undefined"
                  THEN GarbageLoop(r.t, r.states.positions, r.states.velocities, tmax)
                  ELSE r} :
        /\ \/ /\ r.status # "undefined"
              /\ t' = r.t
              /\ states' = r.states
              /\ result' = [op |-> "run", arg |-> tmax, status |-> r.status,
                            value |-> r.error]
              /\ calls' = NoteRun(tmax, r.status)
           \/ /\ r.status = "undefined"
              /\ \/ /\ t' = r.t
                    /\ states' = r.states
                    /\ \E outcome \in {"crash", "error"} :
                          result' = [op |-> "run", arg |-> tmax, status |-> outcome,
                                     value |-> "undefined"]
                 \/ /\ t' = g.t
                    /\ states' = g.states
                    /\ result' = [op |-> "run", arg |-> tmax, status |-> "ok",
                                  value |-> "undefined"]
              /\ calls' = [calls EXCEPT !.clean = FALSE, !.runs = <<>>]
        /\ UNCHANGED <<dt, G, integrator, particles, celestial_init_states, replay>>
        /\ UNCHANGED <<loopVars, forceVars, retryVars>>

\* Simulator.add
AddParticles(ps, body) == Append(ps, Particle(body))

\* the caller adds the next body of the ensemble specification
Add(body) ==
    /\ Alive
    /\ Len(particles) < Len(celestial_init_states)
    /\ body = celestial_init_states[Len(particles) + 1]
    /\ particles' = AddParticles(particles, body)
    /\ result' = [op |-> "add", arg |-> body.name, status |-> "ok", value |-> "None"]
    /\ calls' = NoteOther
    /\ replay' = NoReplay
    /\ UNCHANGED <<t, dt, G, integrator, celestial_init_states, states>>
    /\ UNCHANGED <<loopVars, forceVars, retryVars>>

ResetKeepsTrajectory ==
    /\ Alive
    /\ t' = 0
    /\ states' = states
    /\ result' = [op |-> "reset", arg |-> "none", status |-> "ok", value |-> "None"]
    /\ replay' = IF calls.clean /\ calls.afterReset /\ Len(calls.runs) = 1
                 THEN [valid |-> TRUE, tmax |-> calls.runs[1].tmax,
                       status |-> calls.runs[1].status, states |-> states]
                 ELSE NoReplay
    /\ calls' = NoCalls(TRUE)
    /\ UNCHANGED <<dt, G, integrator, particles, celestial_init_states>>
    /\ UNCHANGED <<loopVars, forceVars, retryVars>>

ResetClearsEnsemble ==
    /\ Alive
    /\ t' = 0
    /\ states' = EmptyStates
    /\ particles' = <<>>
    /\ result' = [op |-> "reset", arg |-> "none", status |-> "ok", value |-> "None"]
    /\ replay' = NoReplay
    /\ calls' = NoCalls(TRUE)
    /\ UNCHANGED <<dt, G, integrator, celestial_init_states>>
    /\ UNCHANGED <<loopVars, forceVars, retryVars>>

\* sum([f[1], ..., f[n]])
RECURSIVE Sum(_, _)
Sum(f, n) == IF n = 0 THEN 0 ELSE Sum(f, n - 1) + f[n]

\* the three sums of move_to_com and its total_mass
total_mass(ps) == Sum([i \in 1..Len(ps) |-> ps[i].m], Len(ps))
WeightedSum(ps) ==
    Vec(Sum([i \in 1..Len(ps) |-> ps[i].m * ps[i].x], Len(ps)),
        Sum([i \in 1..Len(ps) |-> ps[i].m * ps[i].y], Len(ps)),
        Sum([i \in 1..Len(ps) |-> ps[i].m * ps[i].z], Len(ps)))

\* `particle.x -= x` and its two siblings: the centre of mass is a float (the
\* result of a true division), and so is every coordinate afterwards
ShiftedAway(p, com) ==
    [p EXCEPT !.x = @ + com[1], !.y = @ + com[2], !.z = @ + com[3], !.fx = TRUE]
Shifted(p, com) ==
    [p EXCEPT !.x = @ - com[1], !.y = @ - com[2], !.z = @ - com[3], !.fx = TRUE]

\* Simulator.move_to_com.  The divisions by total_mass are Python's: a zero
\* divisor (an empty ensemble, masses that sum to zero) raises
\* ZeroDivisionError, before any particle is assigned to; otherwise the
\* quotient is rounded, on the grid towards zero.
move_to_com(ps) ==
    IF total_mass(ps) = 0
    THEN [raised |-> TRUE, error |-> "ZeroDivisionError", particles |-> ps]
    ELSE The({[raised |-> FALSE, error |-> "none",
               particles |-> Rows([i \in 1..Len(ps) |-> Shifted(ps[i], com)], Len(ps))]
                : com \in {VDiv(WeightedSum(ps), total_mass(ps))}})

MoveToCom ==
    /\ Alive
    /\ \E r \in {move_to_com(particles)} :
          /\ particles' = r.particles
          /\ result' = [op |-> "move_to_com", arg |-> "none",
                        status |-> IF r.raised THEN "error" ELSE "ok",
                        value |-> IF r.raised THEN r.error ELSE "None"]
    /\ calls' = NoteOther
    /\ replay' = NoReplay
    /\ UNCHANGED <<t, dt, G, integrator, celestial_init_states, states>>
    /\ UNCHANGED <<loopVars, forceVars, retryVars>>

\* Simulator.reset
Reset ==
    /\ Alive
    /\ t' = 0
    /\ states' = EmptyStates
    /\ result' = [op |-> "reset", arg |-> "none", status |-> "ok", value |-> "None"]
    /\ replay' = IF calls.clean /\ calls.afterReset /\ Len(calls.runs) = 1
                 THEN [valid |-> TRUE, tmax |-> calls.runs[1].tmax,
                       status |-> calls.runs[1].status, states |-> states]
                 ELSE NoReplay
    /\ calls' = NoCalls(TRUE)
    /\ UNCHANGED <<dt, G, integrator, particles, celestial_init_states>>
    /\ UNCHANGED <<loopVars, forceVars, retryVars>>

\* list[i] of Python: a negative index counts from the end
InRange(list, i) == -Len(list) <= i /\ i < Len(list)
PyIndex(list, i) == IF i >= 0 THEN list[i + 1] ELSE list[Len(list) + i + 1]

\* Simulator.sample, before the two lists are converted by np.array
SampleCall(states_, idxs) ==
    IF \E k \in 1..Len(idxs) : ~InRange(states_.positions, idxs[k])
    THEN [raised |-> TRUE, error |-> "IndexError", positions |-> <<>>, velocities |-> <<>>]
    ELSE IF \E k \in 1..Len(idxs) : ~InRange(states_.velocities, idxs[k])
    THEN [raised |-> TRUE, error |-> "IndexError", positions |-> <<>>, velocities |-> <<>>]
    ELSE [raised |-> FALSE, error |-> "none",
          positions |-> [k \in 1..Len(idxs) |-> PyIndex(states_.positions, idxs[k])],
          velocities |-> [k \in 1..Len(idxs) |-> PyIndex(states_.velocities, idxs[k])]]

\* np.array(list of arrays) needs arrays of one shape: for a ragged list it
\* raises ValueError (numpy >= 1.24) or builds an array of objects (older)
Ragged(list) ==
    \E a, b \in 1..Len(list) : Len(list[a].rows) # Len(list[b].rows)

SampleIndices == {<<-1>>, <<1, 0, 1>>}

Sample(idxs) ==
    LET r == SampleCall(states, idxs)
    IN  /\ Alive
        /\ \/ result' = [op |-> "sample", arg |-> idxs,
                         status |-> IF r.raised THEN "error" ELSE "ok",
                         value |-> IF r.raised THEN r.error
                                   ELSE [positions |-> r.positions,
                                         velocities |-> r.velocities]]
           \/ /\ ~r.raised
              /\ Ragged(r.positions)
              /\ result' = [op |-> "sample", arg |-> idxs, status |-> "error",
                            value |-> "ValueError"]
        /\ UNCHANGED <<t, dt, G, integrator, particles, celestial_init_states, states,
                       calls, replay>>
        /\ UNCHANGED <<loopVars, forceVars, retryVars>>

\* a caller selects an integrator by name, through either factory; selection
\* is a call of the configuration phase
Select(selector, name) ==
    LET r == IF selector = "_create_integrator" THEN SimCreateIntegrator(name)
             ELSE create_integrator(name)
    IN  /\ Alive
        /\ particles = <<>> /\ states = EmptyStates
        /\ result' = [op |-> selector, arg |-> name,
                      status |-> IF r.raised THEN "error" ELSE "ok", value |-> r.value]
        /\ UNCHANGED <<t, dt, G, integrator, particles, celestial_init_states, states,
                       calls, replay>>
        /\ UNCHANGED <<loopVars, forceVars, retryVars>>

\* a caller steps a WHFastIntegrator built on this simulator
StepWHFast ==
    LET r == WHFastStep(G, dt, InitialPositions(particles), InitialVelocities(particles),
                        ParticleMasses(particles))
    IN  /\ Alive
        /\ states = EmptyStates
        /\ result' = [op |-> "WHFastIntegrator.step", arg |-> "none",
                      status |-> IF r.raised THEN "error" ELSE "ok", value |-> r.value]
        /\ UNCHANGED <<t, dt, G, integrator, particles, celestial_init_states, states,
                       calls, replay>>
        /\ UNCHANGED <<loopVars, forceVars, retryVars>>

\* the force routines were not called; no wrapped function was called
NotCalled == [called |-> FALSE, raised |-> FALSE, acc |-> <<>>]
ForceUnused ==
    /\ force_args = [positions |-> <<>>, masses |-> <<>>, G |-> 0]
    /\ acc_numpy = NotCalled
    /\ acc_numba = NotCalled
RetryUnused ==
    /\ n_retry = 0 /\ delay_s = 0
    /\ attempts = 0 /\ func_calls = <<>> /\ sleeps = <<>>
    /\ wrapper = [pc |-> "none", value |-> "none"]

\* Simulator.__init__ with a name _create_integrator accepts
Init ==
    /\ t = 0
    /\ dt \in DtValues
    /\ particles = <<>>
    /\ celestial_init_states \in Ensembles
    /\ \E use_standard_G \in UseStandardG :
          G = IF use_standard_G THEN G_standard ELSE G_AU_Msun_Yr
    /\ integrator \in {name \in IntegratorNames : ~SimCreateIntegrator(name).raised}
    /\ states = EmptyStates
    /\ result = [op |-> "__init__", arg |-> integrator, status |-> "ok", value |-> "None"]
    /\ calls = NoCalls(FALSE)
    /\ replay = NoReplay
    /\ LoopIdle
    /\ ForceUnused
    /\ RetryUnused

Next ==
    \/ \E body \in {Sun, Probe, Twin, Void, Moon} : Add(body)
    \/ MoveToCom
    \/ \E tmax \in Targets : Run(tmax)
    \/ Reset
    \/ \E idxs \in SampleIndices : Sample(idxs)
    \/ \E selector \in {"_create_integrator", "create_integrator"} :
          \E name \in IntegratorNames : Select(selector, name)
    \/ StepWHFast

Spec == Init /\ [][Next]_vars

\* ------------------------------------------- the force model, by itself
\* The arguments the two routines are called on: one to three bodies on the
\* x axis, positive masses, either value of G.
Coordinates == (-2) .. 2
Masses == 1 .. 2
BodyCounts == 1 .. 3
ForceArgs ==
    UNION {{[positions |-> Rows(p, n), masses |-> Rows(m, n), G |-> g]
              : p \in [1..n -> {Vec(x, 0, 0) : x \in Coordinates}],
                m \in [1..n -> Masses],
                g \in {G_AU_Msun_Yr, G_standard}}
            : n \in BodyCounts}

\* a Simulator that takes no part
SimulatorAside ==
    /\ t = 0 /\ dt = 1 /\ G = G_AU_Msun_Yr /\ integrator = "RK4"
    /\ particles = <<>> /\ celestial_init_states = <<>>
    /\ states = EmptyStates
    /\ result = [op |-> "__init__", arg |-> "RK4", status |-> "ok", value |-> "None"]
    /\ calls = NoCalls(FALSE)
    /\ replay = NoReplay

\* what a routine gave: the exception, or the array returned
Outcome(r) ==
    [called |-> TRUE, raised |-> r.raised, acc |-> IF r.raised THEN <<>> ELSE r.acc]

CallNumpy ==
    /\ ~acc_numpy.called
    /\ acc_numpy' = Outcome(numpy_calc_acceleration(force_args.positions,
                                                    force_args.masses, force_args.G))
    /\ UNCHANGED <<force_args, acc_numba, simVars, loopVars, retryVars>>

CallNumba ==
    /\ ~acc_numba.called
    /\ acc_numba' = Outcome(calc_acceleration(force_args.positions,
                                              force_args.masses, force_args.G))
    /\ UNCHANGED <<force_args, acc_numpy, simVars, loopVars, retryVars>>

InitForce ==
    /\ force_args \in ForceArgs
    /\ acc_numpy = NotCalled
    /\ acc_numba = NotCalled
    /\ SimulatorAside
    /\ LoopIdle
    /\ RetryUnused

NextForce == CallNumpy \/ CallNumba

SpecForce == InitForce /\ [][NextForce]_vars

\* ------------------------------------------------- run, step by step
\* The same Simulator with run followed through its loop, one test of
\* `while self.t < tmax` and one pass of the loop body at a time, for every dt
\* the constructor accepts: it stores dt as given, zero and negative included.
\*
\* A loop that does not end appends a snapshot on every pass and, for dt < 0,
\* lowers the clock on every pass.  The loop reads only the last snapshot, and
\* the clock only through `self.t == 0` and `self.t < tmax`; the model keeps the
\* last MaxLen snapshots of the list and holds the clock at ClockFloor, below
\* zero and below every target, once it has fallen that far.  The ensembles
\* are those whose state a step leaves constant in the end (a body at rest
\* alone, a body of mass zero beside it) or whose step raises.
DtAccepted == (-1) .. 2
RestingEnsembles == {<<Sun, Twin>>, <<Sun, Void>>}
ClockFloor == -(MaxT + 2)

Clock(tt) == IF tt < ClockFloor THEN ClockFloor ELSE tt
Kept(list) == IF Len(list) > MaxLen THEN Tail(list) ELSE list

\* run is entered: lines 69 to 75, up to the first test of the loop
RunEnter(tmax) ==
    /\ Alive
    /\ pc = "idle"
    /\ pc' = "while"
    /\ target' = tmax
    /\ states' = IF RecordsInitial(t, states)
                 THEN [positions |->
                           Kept(Append(states.positions, InitialPositions(particles))),
                       velocities |->
                           Kept(Append(states.velocities, InitialVelocities(particles)))]
                 ELSE states
    /\ result' = [op |-> "run", arg |-> tmax, status |-> "running", value |-> "none"]
    /\ UNCHANGED <<t, dt, G, integrator, particles, celestial_init_states, calls, replay>>
    /\ UNCHANGED <<forceVars, retryVars>>

\* `while self.t < tmax`: into the body, or on to `return self.states`
RunWhile ==
    /\ pc = "while"
    /\ IF LoopContinues(t, target)
       THEN /\ pc' = "step"
            /\ UNCHANGED <<target, result>>
       ELSE /\ pc' = "idle"
            /\ target' = 0
            /\ result' = [op |-> "run", arg |-> target, status |-> "ok", value |-> "none"]
    /\ UNCHANGED <<t, dt, G, integrator, particles, celestial_init_states, states,
                   calls, replay>>
    /\ UNCHANGED <<forceVars, retryVars>>

\* one pass of the loop body: lines 78 to 84; an exception of the step leaves
\* run
RunBody ==
    /\ pc = "step"
    /\ \E step \in {IF Len(states.positions) = 0 THEN Raise("IndexError")
                     ELSE IntegratorStep(integrator, G, dt,
                                         states.positions[Len(states.positions)],
                                         states.velocities[Len(states.velocities)],
                                         ParticleMasses(particles))} :
          IF step.raised
          THEN /\ pc' = "idle"
               /\ target' = 0
               /\ result' = [op |-> "run", arg |-> target, status |-> "error",
                             value |-> step.error]
               /\ UNCHANGED <<t, states>>
          ELSE /\ pc' = "while"
               /\ t' = Clock(Advance(t, dt))
               /\ states' = [positions |-> Kept(Append(states.positions, step.positions)),
                             velocities |-> Kept(Append(states.velocities, step.velocities))]
               /\ UNCHANGED <<target, result>>
    /\ UNCHANGED <<dt, G, integrator, particles, celestial_init_states, calls, replay>>
    /\ UNCHANGED <<forceVars, retryVars>>

\* between calls of run the caller configures: add while no snapshot is
\* recorded, reset at any time
AddIdle(body) == pc = "idle" /\ states = EmptyStates /\ Add(body)
ResetIdle == pc = "idle" /\ Reset

\* Simulator.__init__ with any dt
InitRun ==
    /\ t = 0
    /\ dt \in DtAccepted
    /\ particles = <<>>
    /\ celestial_init_states \in RestingEnsembles
    /\ \E use_standard_G \in UseStandardG :
          G = IF use_standard_G THEN G_standard ELSE G_AU_Msun_Yr
    /\ integrator \in {name \in IntegratorNames : ~SimCreateIntegrator(name).raised}
    /\ states = EmptyStates
    /\ result = [op |-> "__init__", arg |-> integrator, status |-> "ok", value |-> "None"]
    /\ calls = NoCalls(FALSE)
    /\ replay = NoReplay
    /\ LoopIdle
    /\ ForceUnused
    /\ RetryUnused

NextRun ==
    \/ \E body \in {Sun, Twin, Void} : AddIdle(body)
    \/ \E tmax \in Targets : RunEnter(tmax)
    \/ RunWhile
    \/ RunBody
    \/ ResetIdle

\* the interpreter goes on executing a call in progress
SpecRun == InitRun /\ [][NextRun]_vars /\ WF_vars(RunWhile) /\ WF_vars(RunBody)

\* ------------------------------------------------ retry_on_exception
\* One call of the wrapper that retry_on_exception(n_retry, delay_s) puts
\* around a function, statement by statement.  utils.py and utils/helpers.py
\* hold the same decorator; they differ in the logger and in `raise` against
\* `raise e`, which raise the same exception.  The function returns or raises
\* an Exception, as it chooses, on every invocation.
Retries == (-1) .. MaxRetry
Delays == {-1, 0, 2}

\* `while attempts <= n_retry`
KeepsTrying(attempts_, n_retry_) == attempts_ <= n_retry_

\* `if attempts > n_retry`
GivesUpLate(attempts_, n_retry_) == attempts_ > n_retry_ + 1
GivesUp(attempts_, n_retry_) == attempts_ > n_retry_

At(pc_) == wrapper.pc = pc_

\* the wrapper is called: attempts = 0
CallWrapper ==
    /\ At("ready")
    /\ attempts' = 0
    /\ wrapper' = [pc |-> "while", value |-> "none"]
    /\ UNCHANGED <<n_retry, delay_s, func_calls, sleeps>>
    /\ UNCHANGED <<simVars, loopVars, forceVars>>

\* the loop test; past the loop the wrapper ends without a return statement
WhileTest ==
    /\ At("while")
    /\ wrapper' = IF KeepsTrying(attempts, n_retry)
                  THEN [pc |-> "try", value |-> "none"]
                  ELSE [pc |-> "returned", value |-> "None"]
    /\ UNCHANGED <<n_retry, delay_s, attempts, func_calls, sleeps>>
    /\ UNCHANGED <<simVars, loopVars, forceVars>>

\* `return func(*args, **kwargs)`, the function returning
TryReturns ==
    /\ At("try")
    /\ func_calls' = Append(func_calls, "returned")
    /\ wrapper' = [pc |-> "returned",
                   value |-> [kind |-> "result", attempt |-> Len(func_calls) + 1]]
    /\ UNCHANGED <<n_retry, delay_s, attempts, sleeps>>
    /\ UNCHANGED <<simVars, loopVars, forceVars>>

\* the function raising: `except Exception as e: attempts += 1`
TryRaises ==
    /\ At("try")
    /\ func_calls' = Append(func_calls, "raised")
    /\ attempts' = attempts + 1
    /\ wrapper' = [pc |-> "except",
                   value |-> [kind |-> "exception", attempt |-> Len(func_calls) + 1]]
    /\ UNCHANGED <<n_retry, delay_s, sleeps>>
    /\ UNCHANGED <<simVars, loopVars, forceVars>>

\* `if attempts > n_retry: raise`, the exception being the one handled
Except ==
    /\ At("except")
    /\ wrapper' = IF GivesUp(attempts, n_retry)
                  THEN [pc |-> "raised", value |-> wrapper.value]
                  ELSE [pc |-> "sleep", value |-> "none"]
    /\ UNCHANGED <<n_retry, delay_s, attempts, func_calls, sleeps>>
    /\ UNCHANGED <<simVars, loopVars, forceVars>>

\* `time.sleep(delay_s)`, which raises ValueError for a negative length; the
\* exception leaves the wrapper
Sleep ==
    /\ At("sleep")
    /\ sleeps' = Append(sleeps, delay_s)
    /\ wrapper' = IF delay_s < 0
                  THEN [pc |-> "raised", value |-> [kind |-> "ValueError", attempt |-> 0]]
                  ELSE [pc |-> "while", value |-> "none"]
    /\ UNCHANGED <<n_retry, delay_s, attempts, func_calls>>
    /\ UNCHANGED <<simVars, loopVars, forceVars>>

\* a function decorated with retry_on_exception(n_retry, delay_s)
InitRetry ==
    /\ n_retry \in Retries
    /\ delay_s \in Delays
    /\ attempts = 0
    /\ func_calls = <<>>
    /\ sleeps = <<>>
    /\ wrapper = [pc |-> "ready", value |-> "none"]
    /\ SimulatorAside
    /\ LoopIdle
    /\ ForceUnused

NextRetry ==
    \/ CallWrapper
    \/ WhileTest
    \/ TryReturns
    \/ TryRaises
    \/ Except
    \/ Sleep

SpecRetry == InitRetry /\ [][NextRetry]_vars

\* ------------------------------------------------------------------ claims
\* The one run call made since the trajectory was fresh (t = 0, no snapshot),
\* when exactly one was made and nothing but queries followed it.
OneRun == calls.clean /\ Len(calls.runs) = 1
TwoRuns == calls.clean /\ Len(calls.runs) = 2
Returned(k) == calls.runs[k].status = "ok"
Target(k) == calls.runs[k].tmax

\* C1 as stated: run(T), T >= 0, on a fresh simulator returns floor(T/dt) + 1
\* snapshots, whether or not T is a multiple of dt.
C1_FloorCount ==
    (OneRun /\ Returned(1) /\ Target(1) >= 0) =>
        /\ Len(states.positions) = (Target(1) \div dt) + 1
        /\ Len(states.velocities) = (Target(1) \div dt) + 1

\* C1 amended: run(T), T >= 0, on a fresh simulator returns ceil(T/dt) + 1
\* snapshots: floor(T/dt) + 1 when T is a multiple of dt, floor(T/dt) + 2
\* when it is not.
C1_CeilCount ==
    (OneRun /\ Returned(1) /\ Target(1) >= 0) =>
        /\ Len(states.positions) = Ceil(Target(1), dt) + 1
        /\ Len(states.velocities) = Ceil(Target(1), dt) + 1
        /\ Len(states.positions) =
              (Target(1) \div dt) + (IF Target(1) % dt = 0 THEN 1 ELSE 2)

C1_Witness ==
    /\ OneRun /\ Returned(1)
    /\ Target(1) = 1 /\ dt = 2
    /\ Len(states.positions) = 2

\* C2: the trajectory is empty, or holds the initial snapshot once followed by
\* one snapshot per completed step: len(positions) = len(velocities) =
\* completed steps + 1, where the steps completed since the last reset are
\* t / dt.
C2_OneInitialSnapshot ==
    \/ Len(states.positions) = 0 /\ Len(states.velocities) = 0
    \/ /\ Len(states.positions) = (t \div dt) + 1
       /\ Len(states.velocities) = (t \div dt) + 1

\* C3: run(T1) then run(T2), T1 < T2, both returning, leave the clock and the
\* trajectory that the single call run(T2) from the same configured state
\* leaves.
C3_ContinuesLikeSingleRun ==
    (TwoRuns /\ Returned(1) /\ Returned(2) /\ Target(1) < Target(2)) =>
        LET single == RunCall(0, EmptyStates, particles, Target(2))
        IN  /\ t = single.t
            /\ states = single.states

\* C4 as stated: a run(T) that returns after being entered with t0 <= T
\* leaves T <= t < T + dt and t = t0 + k * dt, k the number of snapshots the
\* call appended; entered with t0 >= T it leaves the clock unchanged.
C4_SnapshotsAppended ==
    [][(result'.op = "run" /\ result'.status = "ok") =>
         LET T == result'.arg
             k == Len(states'.positions) - Len(states.positions)
         IN  /\ t <= T => (T <= t' /\ t' < T + dt /\ t' = t + k * dt)
             /\ t >= T => t' = t]_vars

\* C4 amended: ... and t = t0 + k * dt, k the number of steps the call took,
\* which is the number of snapshots it appended less the initial snapshot it
\* records when it is entered with t0 = 0; entered with t0 >= T it takes no
\* step and leaves the clock unchanged.
C4_StepsTaken ==
    [][(result'.op = "run" /\ result'.status = "ok") =>
         LET T == result'.arg
             k == Len(states'.positions) - Len(states.positions)
                    - (IF t = 0 THEN 1 ELSE 0)
         IN  /\ Len(states'.velocities) = Len(states'.positions)
             /\ t <= T => (T <= t' /\ t' < T + dt /\ t' = t + k * dt)
             /\ t >= T => (t' = t /\ k = 0)]_vars

\* a run that overshot its target: run(1) with dt = 2 ends at t = 2
C4_Witness ==
    /\ result.op = "run" /\ result.status = "ok"
    /\ result.arg = 1 /\ dt = 2 /\ t = 2

\* C5: reset(); run(T); reset(); run(T) produces the same trajectory (and the
\* same outcome) twice.
C5_ReplayIdentical ==
    (replay.valid /\ OneRun /\ calls.afterReset /\ Target(1) = replay.tmax) =>
        /\ states = replay.states
        /\ calls.runs[1].status = replay.status

C5_Witness ==
    /\ replay.valid /\ OneRun /\ calls.afterReset /\ Target(1) = replay.tmax
    /\ Returned(1)
    /\ Len(particles) = 2
    /\ Len(states.positions) >= 3

\* C6: reset sets the clock to 0 and empties both lists of the trajectory, and
\* leaves the ensemble, dt, G and the integrator as they were.
C6_ResetFrame ==
    [][result'.op = "reset" =>
         /\ t' = 0
         /\ states'.positions = <<>> /\ states'.velocities = <<>>
         /\ particles' = particles
         /\ dt' = dt /\ G' = G /\ integrator' = integrator]_vars

\* a reset that discarded a trajectory of at least one step
C6_Witness ==
    /\ result.op = "reset"
    /\ replay.valid /\ Len(replay.states.positions) >= 2
    /\ Len(particles) > 0
    /\ t = 0 /\ states = EmptyStates

\* C7: once run has taken a step, add is rejected with an error, and every
\* recorded snapshot has one row per body of the ensemble.
C7_AddRejectedAfterStep ==
    t # 0 =>
        /\ result.op = "add" => result.status = "error"
        /\ \A k \in 1..Len(states.positions) :
              Len(states.positions[k].rows) = Len(particles)

\* C8: every body of the ensemble has a mass greater than zero.
C8_PositiveMass == \A i \in 1..Len(particles) : particles[i].m > 0

\* C9: selecting 'WHFast' raises through both selectors, and a step of the
\* WHFast integrator raises or returns a new state.
C9_WHFastFailsLoudly ==
    /\ (result.op \in {"_create_integrator", "create_integrator"}
            /\ result.arg = "WHFast") => result.status = "error"
    /\ result.op = "WHFastIntegrator.step" =>
            (result.status = "error" \/ result.value # "None")

\* C10: sample raises when an index lies outside 0 .. len - 1, and otherwise
\* returns the recorded states at the indices, in the order requested.
C10_SampleChecksRange ==
    result.op = "sample" =>
        LET idxs == result.arg
            n == Len(states.positions)
        IN  IF \E k \in 1..Len(idxs) : idxs[k] \notin 0..(n - 1)
            THEN result.status = "error"
            ELSE /\ result.status = "ok"
                 /\ result.value.positions =
                        [k \in 1..Len(idxs) |-> states.positions[idxs[k] + 1]]
                 /\ result.value.velocities =
                        [k \in 1..Len(idxs) |-> states.velocities[idxs[k] + 1]]

\* a non-empty ensemble of positive masses
PositiveEnsemble(ps) == Len(ps) > 0 /\ \A i \in 1..Len(ps) : ps[i].m > 0

\* what move_to_com leaves alone: the masses, the velocities, the number and
\* the names of the bodies, the clock and the trajectory
C11Frame ==
    /\ Len(particles') = Len(particles)
    /\ \A i \in 1..Len(particles) :
          /\ particles'[i].name = particles[i].name
          /\ particles'[i].m = particles[i].m /\ particles'[i].fm = particles[i].fm
          /\ particles'[i].vx = particles[i].vx /\ particles'[i].vy = particles[i].vy
          /\ particles'[i].vz = particles[i].vz /\ particles'[i].fv = particles[i].fv
    /\ t' = t /\ states' = states

Dot(u, v) == u[1] * v[1] + u[2] * v[2] + u[3] * v[3]

\* two bodies apart, of positive mass: the input on which each body is
\* attracted by the other alone
TwoApart(args) ==
    /\ Len(args.masses) = 2
    /\ args.positions[1] # args.positions[2]
    /\ args.masses[1] > 0 /\ args.masses[2] > 0

\* the acceleration of body i does not point away from body j
Towards(out, args, i, j) ==
    Dot(out.acc[i], VSub(args.positions[j], args.positions[i])) >= 0

\* C12: on the same arguments the two routines give the same outcome, the
\* same array of accelerations or both an error, and of two bodies apart each
\* is accelerated along r_ij = pos_j - pos_i, towards the other.
C12_OnePolicy ==
    (acc_numpy.called /\ acc_numba.called) =>
        /\ acc_numpy.raised = acc_numba.raised
        /\ acc_numpy.acc = acc_numba.acc
        /\ TwoApart(force_args) =>
              /\ Towards(acc_numpy, force_args, 1, 2)
              /\ Towards(acc_numpy, force_args, 2, 1)
              /\ Towards(acc_numba, force_args, 1, 2)
              /\ Towards(acc_numba, force_args, 2, 1)

\* C13: every call of run, whatever dt the Simulator was constructed with,
\* eventually returns or raises.
C13_RunEnds == (pc # "idle") ~> (pc = "idle")

\* the wrapper gave its caller a value or an exception
Ended == At("returned") \/ At("raised")
\* the invocations that raised
Failed == Cardinality({k \in 1..Len(func_calls) : func_calls[k] = "raised"})
Min(a, b) == IF a <= b THEN a ELSE b

\* C14: for n_retry >= 0, one call of the wrapper invokes the function at most
\* n_retry + 1 times; no invocation follows one that returned, and the
\* wrapper returns that result; when all n_retry + 1 invocations raised, the
\* wrapper raises the exception of the last; time.sleep(delay_s) is called
\* once after every failed invocation but the (n_retry + 1)-th.
C14_BoundedRetry ==
    n_retry >= 0 =>
        /\ Len(func_calls) <= n_retry + 1
        /\ \A k \in 1..(Len(func_calls) - 1) : func_calls[k] = "raised"
        /\ (func_calls # <<>> /\ func_calls[Len(func_calls)] = "returned") =>
              /\ At("returned")
              /\ wrapper.value = [kind |-> "result", attempt |-> Len(func_calls)]
        /\ At("returned") =>
              wrapper.value = [kind |-> "result", attempt |-> Failed + 1]
        /\ (Ended /\ Failed = n_retry + 1) =>
              /\ At("raised")
              /\ wrapper.value = [kind |-> "exception", attempt |-> n_retry + 1]
        /\ \A k \in 1..Len(sleeps) : sleeps[k] = delay_s
        /\ Len(sleeps) <= Min(Failed, n_retry)
        /\ Ended => Len(sleeps) = Min(Failed, n_retry)

\* every permitted invocation raised: n_retry = 2, three invocations, two
\* sleeps of 2 s, the third exception raised to the caller
C14_Witness ==
    /\ n_retry = 2 /\ delay_s = 2
    /\ func_calls = <<"raised", "raised", "raised">>
    /\ sleeps = <<2, 2>>
    /\ At("raised")
    /\ wrapper.value = [kind |-> "exception", attempt |-> 3]

====
